---------------------------- MODULE Spec2Model ----------------------------
(***************************************************************************)
(* A model of src/Stock_Screener.py, the Streamlit stock screener.         *)
(*                                                                         *)
(* Streamlit runs the script top to bottom on every rerun; st.session_state*)
(* survives reruns of one session.  The model keeps the session state, the *)
(* position of the current script run (pc) and the data the run has built. *)
(*                                                                         *)
(* Spec is the script as a whole.  RankSpec is the formatting, scoring and    *)
(* ranking code of lines 177-218 on its own, started from the DataFrames     *)
(* line 168 can build.                                                       *)
(*                                                                         *)
(* Units: prices and ATR are whole dollars, todaysChangePerc is whole      *)
(* percent, volumes are shares.  ATR values are even, so that 1.5 * atr is *)
(* a whole number of dollars.                                              *)
(***************************************************************************)
EXTENDS Integers, Sequences, FiniteSets, TLC

VARIABLES
    session_state,  \* st.session_state: a function from the keys present to values
    widget,         \* TRUE when the last script run rendered the password text_input
    typed,          \* the text last typed into the password widget ("" before any)
    pc,             \* where the current script run is, or how it ended
    tickers_df,     \* line 49: one record per ticker of the snapshot
    pre_filtered,   \* lines 52-62
    idx,            \* position of the for loop of line 75 in pre_filtered
    fetched,        \* line 78: the candle response received for each symbol so far
    result_rows,    \* line 43 / 148
    df,             \* line 168
    top_display     \* line 206

vars == <<session_state, widget, typed, pc, tickers_df, pre_filtered, idx,
          fetched, result_rows, df, top_display>>

---------------------------------------------------------------------------
(* Bounds of the model *)

\* tickers in a snapshot
MaxTickers == 2

\* rows of a DataFrame handed to the ranking code on its own
MaxRows == 3

\* ticker symbols, by position in the snapshot
Symbol(k) == "T" \o ToString(k)

\* snapshot attributes a ticker is drawn with: lastTrade.p, day.v, todaysChangePerc
SnapVals ==
    [p : {44, 45, 70, 71}, v : {2000000, 3000000}, chg : {1, 2, 11}]
        \cup {[p |-> 45, v |-> 2200000, chg |-> 2]}

\* values of the last candle's indicators, as pandas_ta returns them.  The true
\* range is max(high - low, |high - previous close|, |low - previous close|), so
\* the ATR is 0 when every bar has high = low = previous close, also when the
\* closes differ; the script does not compare a bar's close with its high and low.
LatestVals ==
    [close : {60}, atr : {0, 2, 4}, macd_hist : {1}, rsi_2 : {50}, rsi_5 : {50},
     ema_9 : {61}, ema_21 : {60}, vwap : {59}, bb_width : {2, 6}]

AllColumns == {"c", "v", "h", "l", "o", "t"}

\* a candle response: number of candles, their columns, whether a close is NaN,
\* the number of distinct closes, the summed volume, whether ta.bbands returned
\* the columns BBU_20_2.0 and BBL_20_2.0, and the last candle's indicators
Response(n, cols, nan, uniq, vol, bb, latest) ==
    [n |-> n, cols |-> cols, closeNaN |-> nan, nunique |-> uniq,
     volume |-> vol, bbands |-> bb, latest |-> latest]

AnyLatest == CHOOSE l \in LatestVals : TRUE

GoodResponses ==
    {Response(50, AllColumns, FALSE, 2, 3000000, TRUE, l) : l \in LatestVals}
        \cup {Response(50, AllColumns, FALSE, 2, 2000000, TRUE, AnyLatest)}

BadResponses ==
    {Response(0, {}, FALSE, 0, 0, FALSE, AnyLatest),
     Response(50, AllColumns \ {"h"}, FALSE, 2, 3000000, TRUE, AnyLatest),
     Response(49, AllColumns, FALSE, 2, 3000000, TRUE, AnyLatest),
     Response(50, AllColumns \ {"t"}, FALSE, 2, 3000000, TRUE, AnyLatest),
     Response(50, AllColumns, TRUE, 2, 3000000, TRUE, AnyLatest),
     Response(50, AllColumns, FALSE, 1, 3000000, TRUE, AnyLatest),
     Response(50, AllColumns, FALSE, 2, 1999999, TRUE, AnyLatest),
     Response(50, AllColumns, FALSE, 2, 3000000, FALSE, AnyLatest)}

Responses == GoodResponses \cup BadResponses

---------------------------------------------------------------------------
(* Configuration, lines 9-12 and the literals of the filters *)

APP_PASSWORD == "secret"

\* texts the user may type: the password, a wrong guess, the cleared field
Passwords == {"secret", "guess", ""}

PriceMin == 45
PriceMax == 70
VolumeMin == 2000000
DollarVolumeMin == 100000000
ChangeMin == 2
HeadLimit == 150
MinCandles == 50
MinIndicatorCandles == 20
CandleVolumeMin == 2000000

---------------------------------------------------------------------------
(* The password gate, lines 15-35 *)

SetKey(s, key, val) == [k \in DOMAIN s \cup {key} |-> IF k = key THEN val ELSE s[k]]

DelKey(s, key) == [k \in DOMAIN s \ {key} |-> s[k]]

\* lines 17-22, applied to a session state that holds the typed password
password_entered(s) ==
    IF s["password"] = APP_PASSWORD
    THEN DelKey(SetKey(s, "password_correct", TRUE), "password")
    ELSE SetKey(s, "password_correct", FALSE)

\* check_password with the elif of line 27 lost: any recorded attempt passes
check_password_any_attempt(s) == "password_correct" \in DOMAIN s

\* lines 24-32: the value check_password returns for a session state
check_password(s) ==
    IF "password_correct" \notin DOMAIN s THEN FALSE
    ELSE IF ~s["password_correct"] THEN FALSE
    ELSE TRUE

\* lines 34-44 of a script run whose button is not pressed: the run stops at the
\* gate (st.stop, widget rendered) or shows the page with the button
GateResult(s) == IF check_password(s) THEN "page" ELSE "gate_stopped"

---------------------------------------------------------------------------
(* Snapshot and pre-filter, lines 46-64 *)

\* lines 49-50: the snapshot's tickers with the dollar_volume column
Normalize(universe) ==
    [k \in 1..Len(universe) |->
        [ticker |-> Symbol(k), p |-> universe[k].p, v |-> universe[k].v,
         chg |-> universe[k].chg, dollar_volume |-> universe[k].p * universe[k].v]]

\* the mask with strict price comparisons
PassesFilterStrictPrice(r) ==
    /\ r.p > PriceMin
    /\ r.p < PriceMax
    /\ r.v > VolumeMin
    /\ r.dollar_volume > DollarVolumeMin
    /\ r.chg >= ChangeMin

\* the mask with the percent-change term left out
PassesFilterNoChange(r) ==
    /\ r.p >= PriceMin
    /\ r.p <= PriceMax
    /\ r.v > VolumeMin
    /\ r.dollar_volume > DollarVolumeMin

\* lines 53-57: the filter mask of one row
PassesFilter(r) ==
    /\ r.p >= PriceMin
    /\ r.p <= PriceMax
    /\ r.v > VolumeMin
    /\ r.dollar_volume > DollarVolumeMin
    /\ r.chg >= ChangeMin

\* lines 60-61: todaysChangePerc descending, then day.v descending
GainOrder(a, b) == a.chg > b.chg \/ (a.chg = b.chg /\ a.v > b.v)

\* DataFrame.sort_values on several columns: a stable sort.  before holds the
\* pairs <<j, i>> of positions whose rows are strictly ordered, row j ahead of
\* row i; rows that tie keep their input order.
StableSort(s, before) ==
    LET n == Len(s)
        pos(i) == 1 + Cardinality({j \in 1..n :
                        \/ <<j, i>> \in before
                        \/ (<<i, j>> \notin before /\ j < i)})
    IN  [k \in 1..n |-> s[CHOOSE i \in 1..n : pos(i) = k]]

\* the pairs of positions of s that the strict order of lines 60-61 separates
GainPairs(s) == {q \in (1..Len(s)) \X (1..Len(s)) : GainOrder(s[q[1]], s[q[2]])}

\* .head(n)
HeadRows(s, n) == SubSeq(s, 1, IF Len(s) < n THEN Len(s) ELSE n)

\* lines 52-62
PreFilter(tdf) ==
    LET kept == SelectSeq(tdf, PassesFilter)
    IN  HeadRows(StableSort(kept, GainPairs(kept)), HeadLimit)

---------------------------------------------------------------------------
(* The per-ticker loop, lines 75-165 *)

\* the target with the stop's multiplier
TargetPriceStopMultiplier(entry_price, atr) == entry_price + atr * 1

\* line 143
TargetPrice(entry_price, atr) == entry_price + (atr * 3) \div 2

\* line 144
StopLoss(entry_price, atr) == entry_price - atr * 1

\* line 139-140: the snapshot's todaysChangePerc of the symbol, 0 when absent
PercentOf(pf, symbol) ==
    LET hits == SelectSeq(pf, LAMBDA r : r.ticker = symbol)
    IN  IF Len(hits) > 0 THEN hits[1].chg ELSE 0

\* lines 138-165: the row appended for a symbol
MakeRow(symbol, percent, resp) ==
    LET latest == resp.latest
        entry_price == latest.close
        atr == latest.atr
    IN  [ticker |-> symbol,
         price |-> latest.close,
         volume |-> resp.volume,
         percent_change |-> percent,
         macd_hist |-> latest.macd_hist,
         rsi_2 |-> latest.rsi_2,
         rsi_5 |-> latest.rsi_5,
         ema_9 |-> latest.ema_9,
         ema_21 |-> latest.ema_21,
         atr |-> latest.atr,
         vwap |-> latest.vwap,
         bb_width |-> latest.bb_width,
         ema_crossover |-> IF latest.ema_9 > latest.ema_21 THEN 1 ELSE 0,
         entry_price |-> entry_price,
         target_price |-> TargetPrice(entry_price, atr),
         stop_loss |-> StopLoss(entry_price, atr)]

\* lines 83-90: the response is skipped before any column is used
SkipsAtValidation(resp) ==
    \/ resp.n = 0 \/ ~({"c", "v", "h", "l"} \subseteq resp.cols)
    \/ resp.n < MinCandles
    \/ resp.n = 0

\* line 98: candles['timestamp'] exists only when the response had a 't' column
RaisesAtTimestamp(resp) == "t" \notin resp.cols

\* lines 102-135: the checks after the rename
SkipsAtIndicators(resp) ==
    \/ resp.n < MinIndicatorCandles
    \/ resp.closeNaN \/ resp.nunique = 1
    \/ resp.volume < CandleVolumeMin
    \/ ~resp.bbands

\* the outcome of one pass through the loop body
BodyOutcome(resp) ==
    IF SkipsAtValidation(resp) THEN "skip"
    ELSE IF RaisesAtTimestamp(resp) THEN "raise"
    ELSE IF SkipsAtIndicators(resp) THEN "skip"
    ELSE "row"

---------------------------------------------------------------------------
(* Script runs *)

EndStates == {"gate_stopped", "page", "stopped_no_data",
              "KeyError_lastTrade", "KeyError_timestamp", "NameError_df_final_display"}

PipelineStates == {"fetch", "loop", "stopped_no_data",
                   "KeyError_lastTrade", "KeyError_timestamp", "NameError_df_final_display"}

Init ==
    /\ session_state = << >>
    /\ widget = FALSE
    /\ typed = ""
    /\ pc = "start"
    /\ tickers_df = << >>
    /\ pre_filtered = << >>
    /\ idx = 0
    /\ fetched = << >>
    /\ result_rows = << >>
    /\ df = << >>
    /\ top_display = << >>

ClearRun ==
    /\ tickers_df' = << >>
    /\ pre_filtered' = << >>
    /\ idx' = 0
    /\ fetched' = << >>
    /\ result_rows' = << >>
    /\ df' = << >>
    /\ top_display' = << >>

\* A script run with no widget interaction (first load, browser refresh):
\* lines 34-42 with the button not pressed.
Rerun ==
    /\ pc \in EndStates \cup {"start"}
    /\ pc' = GateResult(session_state)
    /\ widget' = ~check_password(session_state)
    /\ ClearRun
    /\ UNCHANGED <<session_state, typed>>

\* The user changes the password text_input: Streamlit stores the text under the
\* widget's key, calls on_change (password_entered) and reruns the script.
EnterPassword(text) ==
    /\ pc \in EndStates
    /\ widget
    /\ text # typed
    /\ typed' = text
    /\ session_state' = password_entered(SetKey(session_state, "password", text))
    /\ pc' = GateResult(session_state')
    /\ widget' = ~check_password(session_state')
    /\ ClearRun

\* The user presses "Run Screener", which the last run rendered at line 42: the
\* script reruns, passes lines 34-35 when check_password holds, and enters the
\* button's block (lines 43-44).
ClickRun ==
    /\ pc \in EndStates
    /\ ~widget
    /\ pc' = IF check_password(session_state) THEN "fetch" ELSE "gate_stopped"
    /\ widget' = ~check_password(session_state)
    /\ ClearRun
    /\ UNCHANGED <<session_state, typed>>

\* lines 46-64: the snapshot arrives.  json_normalize of an empty ticker list is a
\* DataFrame without columns, and line 50 raises KeyError: 'lastTrade.p'.
Snapshot(universe) ==
    /\ pc = "fetch"
    /\ tickers_df' = Normalize(universe)
    /\ IF Len(universe) = 0
       THEN /\ pc' = "KeyError_lastTrade"
            /\ UNCHANGED <<pre_filtered, idx>>
       ELSE /\ pc' = "loop"
            /\ pre_filtered' = PreFilter(tickers_df')
            /\ idx' = 1
    /\ UNCHANGED <<session_state, widget, typed, fetched, result_rows, df, top_display>>

\* lines 75-165: one pass of the loop body, for pre_filtered[idx]
LoopStep(resp) ==
    /\ pc = "loop"
    /\ idx <= Len(pre_filtered)
    /\ LET symbol == pre_filtered[idx].ticker
           outcome == BodyOutcome(resp)
       IN  /\ fetched' = SetKey(fetched, symbol, resp)
           /\ pc' = IF outcome = "raise" THEN "KeyError_timestamp" ELSE "loop"
           /\ idx' = IF outcome = "raise" THEN idx ELSE idx + 1
           /\ result_rows' =
                IF outcome = "row"
                THEN Append(result_rows, MakeRow(symbol, PercentOf(pre_filtered, symbol), resp))
                ELSE result_rows
    /\ UNCHANGED <<session_state, widget, typed, tickers_df, pre_filtered, df, top_display>>

\* lines 167-175: the loop is over.  An empty DataFrame stops the run with a
\* warning; otherwise line 175 reads df_final_display, a name the script never
\* binds, and the run ends with NameError.
Finish ==
    /\ pc = "loop"
    /\ idx > Len(pre_filtered)
    /\ df' = result_rows
    /\ pc' = IF Len(df') = 0 THEN "stopped_no_data" ELSE "NameError_df_final_display"
    /\ UNCHANGED <<session_state, widget, typed, tickers_df, pre_filtered, idx,
                   fetched, result_rows, top_display>>

---------------------------------------------------------------------------
(* Formatting and parsing of cells, lines 177-180, 197-198, 207-215.  A formatted *)
(* cell is the sequence of its characters; a float cell that may be NaN is a      *)
(* record [nan, v].                                                               *)

NaN == [nan |-> TRUE, v |-> 0]

Num(x) == [nan |-> FALSE, v |-> x]

DigitChars == <<"0", "1", "2", "3", "4", "5", "6", "7", "8", "9">>

RECURSIVE Digits(_)
Digits(n) == IF n < 10 THEN <<DigitChars[n + 1]>>
             ELSE Digits(n \div 10) \o <<DigitChars[(n % 10) + 1]>>

\* three digits, zero padded
Pad3(n) == <<DigitChars[(n \div 100) + 1], DigitChars[((n \div 10) % 10) + 1],
             DigitChars[(n % 10) + 1]>>

\* the ',' format option: groups of three digits
RECURSIVE Commas(_)
Commas(n) == IF n < 1000 THEN Digits(n)
             ELSE Commas(n \div 1000) \o <<",">> \o Pad3(n % 1000)

\* line 180: '${:,.2f}'.format(x) of a whole number of dollars
FormatMoney(x) ==
    IF x < 0 THEN <<"$", "-">> \o Commas(0 - x) \o <<".", "0", "0">>
    ELSE <<"$">> \o Commas(x) \o <<".", "0", "0">>

\* line 213: f"${x:.2f}" of a float cell
FormatPrice(cell) ==
    IF cell.nan THEN <<"$", "n", "a", "n">>
    ELSE IF cell.v < 0 THEN <<"$", "-">> \o Digits(0 - cell.v) \o <<".", "0", "0">>
    ELSE <<"$">> \o Digits(cell.v) \o <<".", "0", "0">>

\* line 214: f"{int(x):,}"
FormatVolume(x) == Commas(x)

\* line 215: f"{x:.2f}%"
FormatPercent(x) == Digits(x) \o <<".", "0", "0", "%">>

IsDigit(c) == \E d \in 1..10 : DigitChars[d] = c

DigitValue(c) == (CHOOSE d \in 1..10 : DigitChars[d] = c) - 1

RECURSIVE ParseDigits(_)
ParseDigits(chars) ==
    IF Len(chars) = 0 THEN 0
    ELSE 10 * ParseDigits(SubSeq(chars, 1, Len(chars) - 1)) + DigitValue(chars[Len(chars)])

\* lines 197, 207: pd.to_numeric(..., errors='coerce') of a text cell: the number
\* when the text is digits with an optional fraction of zeros, NaN otherwise
ToNumeric(chars) ==
    LET dots == {k \in 1..Len(chars) : chars[k] = "."}
        whole == IF dots = {} THEN chars
                 ELSE SubSeq(chars, 1, (CHOOSE k \in dots : TRUE) - 1)
        frac == IF dots = {} THEN << >>
                ELSE SubSeq(chars, (CHOOSE k \in dots : TRUE) + 1, Len(chars))
    IN  IF /\ Cardinality(dots) <= 1
           /\ Len(whole) > 0
           /\ \A k \in 1..Len(whole) : IsDigit(whole[k])
           /\ \A k \in 1..Len(frac) : frac[k] = "0"
        THEN Num(ParseDigits(whole))
        ELSE NaN

---------------------------------------------------------------------------
(* Formatting, scoring and ranking of the DataFrame, lines 176-218 *)

\* lines 177-180: the four price columns become text
FormatPrices(frame) ==
    [k \in 1..Len(frame) |->
        [frame[k] EXCEPT !.entry_price = FormatMoney(@),
                         !.target_price = FormatMoney(@),
                         !.stop_loss = FormatMoney(@),
                         !.price = FormatMoney(@)]]

RECURSIVE SumBBWidth(_)
SumBBWidth(frame) ==
    IF Len(frame) = 0 THEN 0 ELSE frame[1].bb_width + SumBBWidth(Tail(frame))

\* bb_width compared with the first row's instead of the mean
AboveFirstBBWidth(r, frame) == r.bb_width > frame[1].bb_width

\* line 193: bb_width > df['bb_width'].mean(), the mean taken over the whole frame
AboveMeanBBWidth(r, frame) == r.bb_width * Len(frame) > SumBBWidth(frame)

\* line 200: price * volume, NaN when the price is NaN.  The cell is kept in
\* dollars; the code's cell is this divided by 1_000_000.
LiquidityScore(price, volume) == IF price.nan THEN NaN ELSE Num(price.v * volume)

\* line 201: liquidity_score > 100 (millions), FALSE for NaN
Liquid(cell) == ~cell.nan /\ cell.v > 100 * 1000000

B(cond) == IF cond THEN 1 ELSE 0

\* lines 188-201: the score of row r of the frame
ScoreOf(r, frame) ==
      B(r.macd_hist > 0)
    + B(r.rsi_2 < 10)
    + B(r.ema_9 > r.ema_21)
    + B(r.atr >= 3 /\ r.atr <= 6)
    + B(AboveMeanBBWidth(r, frame))
    + B(r.vwap > r.ema_21)
    + B(r.percent_change > 3)
    + B(Liquid(LiquidityScore(ToNumeric(r.price), r.volume)))

\* lines 188-201: the frame with its price reparsed and the score columns
ScoreAll(frame) ==
    [k \in 1..Len(frame) |->
        [ticker |-> frame[k].ticker,
         price |-> ToNumeric(frame[k].price),
         volume |-> frame[k].volume,
         percent_change |-> frame[k].percent_change,
         macd_hist |-> frame[k].macd_hist,
         rsi_2 |-> frame[k].rsi_2,
         rsi_5 |-> frame[k].rsi_5,
         ema_9 |-> frame[k].ema_9,
         ema_21 |-> frame[k].ema_21,
         atr |-> frame[k].atr,
         vwap |-> frame[k].vwap,
         bb_width |-> frame[k].bb_width,
         ema_crossover |-> frame[k].ema_crossover,
         entry_price |-> frame[k].entry_price,
         target_price |-> frame[k].target_price,
         stop_loss |-> frame[k].stop_loss,
         score |-> ScoreOf(frame[k], frame),
         liquidity_score |-> LiquidityScore(ToNumeric(frame[k].price), frame[k].volume)]]

\* the sort keys with percent_change ahead of score
RankOrderGainFirst(a, b) ==
    \/ a.percent_change > b.percent_change
    \/ (a.percent_change = b.percent_change /\ a.score > b.score)
    \/ (a.percent_change = b.percent_change /\ a.score = b.score /\ a.volume > b.volume)

\* line 211: score, then percent_change, then volume, all descending
RankOrder(a, b) ==
    \/ a.score > b.score
    \/ (a.score = b.score /\ a.percent_change > b.percent_change)
    \/ (a.score = b.score /\ a.percent_change = b.percent_change /\ a.volume > b.volume)

\* the pairs of positions of s that the strict order of line 211 separates
RankPairs(s) == {q \in (1..Len(s)) \X (1..Len(s)) : RankOrder(s[q[1]], s[q[2]])}

\* lines 206-215: the sorted copy, its price, volume and percent_change as text
SortDisplay(frame) ==
    LET sorted == StableSort(frame, RankPairs(frame))
    IN  [k \in 1..Len(sorted) |->
            [sorted[k] EXCEPT !.price = FormatPrice(@),
                              !.volume = FormatVolume(@),
                              !.percent_change = FormatPercent(@)]]

\* lines 177-180 applied to the DataFrame of line 168
FormatStep ==
    /\ pc = "format"
    /\ df' = FormatPrices(df)
    /\ pc' = "score"
    /\ UNCHANGED <<session_state, widget, typed, tickers_df, pre_filtered, idx,
                   fetched, result_rows, top_display>>

\* lines 188-201
ScoreStep ==
    /\ pc = "score"
    /\ df' = ScoreAll(df)
    /\ pc' = "sort"
    /\ UNCHANGED <<session_state, widget, typed, tickers_df, pre_filtered, idx,
                   fetched, result_rows, top_display>>

\* lines 206-218
DisplayStep ==
    /\ pc = "sort"
    /\ top_display' = SortDisplay(df)
    /\ pc' = "displayed"
    /\ UNCHANGED <<session_state, widget, typed, tickers_df, pre_filtered, idx,
                   fetched, result_rows, df>>

\* The DataFrames line 168 can build: one row per symbol, in the order of
\* pre_filtered (todaysChangePerc descending), each row as the loop appends it.
Frames ==
    UNION {
        {f \in [1..n -> {MakeRow("T", chg, resp) :
                            chg \in {r.chg : r \in {x \in SnapVals : x.chg >= ChangeMin}},
                            resp \in GoodResponses}] :
            \A k \in 1..(n - 1) : f[k].percent_change >= f[k + 1].percent_change}
        : n \in 1..MaxRows}

Named(f) == [k \in 1..Len(f) |-> [f[k] EXCEPT !.ticker = Symbol(k)]]

\* The formatting, scoring and ranking code on its own, from every such DataFrame.
\* (In a run of the whole script line 175 raises before this code: see Finish.)
RankInit ==
    /\ session_state = [k \in {"password_correct"} |-> TRUE]
    /\ widget = FALSE
    /\ typed = APP_PASSWORD
    /\ pc = "format"
    /\ tickers_df = << >>
    /\ pre_filtered = << >>
    /\ idx = 0
    /\ fetched = << >>
    /\ \E f \in Frames : result_rows = Named(f)
    /\ df = result_rows
    /\ top_display = << >>

RankNext == FormatStep \/ ScoreStep \/ DisplayStep

RankSpec == RankInit /\ [][RankNext]_vars

Universes == UNION {[1..n -> SnapVals] : n \in 0..MaxTickers}

\* the snapshot request of line 48, answered with any universe
FetchSnapshot == pc = "fetch" /\ \E universe \in Universes : Snapshot(universe)

\* the candle request of line 77, answered with any response
FetchCandles == pc = "loop" /\ \E resp \in Responses : LoopStep(resp)

Next ==
    \/ Rerun
    \/ \E text \in Passwords : EnterPassword(text)
    \/ ClickRun
    \/ FetchSnapshot
    \/ FetchCandles
    \/ Finish

Spec == Init /\ [][Next]_vars

---------------------------------------------------------------------------
(* Properties *)

TickersOf(rows) == {rows[k].ticker : k \in 1..Len(rows)}

RowsOf(rows) == {rows[k] : k \in 1..Len(rows)}

\* the run got past the loop or ended in it
RunEnded == pc \in {"stopped_no_data", "KeyError_lastTrade", "KeyError_timestamp",
                    "NameError_df_final_display"}

PassesOtherThanPrice(r) ==
    r.v > VolumeMin /\ r.dollar_volume > DollarVolumeMin /\ r.chg >= ChangeMin

PassesOtherThanChange(r) ==
    r.p >= PriceMin /\ r.p <= PriceMax /\ r.v > VolumeMin /\ r.dollar_volume > DollarVolumeMin

Reaches(symbol) ==
    \/ symbol \in TickersOf(pre_filtered)
    \/ symbol \in DOMAIN fetched
    \/ symbol \in TickersOf(result_rows)

(* C2, as claimed: a ticker whose percent change is outside the band [2, 10],   *)
(* below 2 or above 10, never reaches the candle loop or the result rows.       *)
C2_BandRejects ==
    \A r \in RowsOf(tickers_df) : (r.chg < 2 \/ r.chg > 10) => ~Reaches(r.ticker)

(* C2, amended: a ticker whose percent change is below 2 never reaches the      *)
(* candle loop or the result rows, whatever its other attributes; there is no   *)
(* maximum: a ticker above 10 percent that passes the price, volume and         *)
(* dollar-volume terms is kept by the pre-filter (within the head(150) cut).    *)
C2_MinimumOnly ==
    \A r \in RowsOf(tickers_df) :
        /\ r.chg < ChangeMin => ~Reaches(r.ticker)
        /\ (r.chg > 10 /\ PassesOtherThanChange(r) /\ Len(tickers_df) <= HeadLimit)
              => r.ticker \in TickersOf(pre_filtered)

C2_Witness ==
    /\ RunEnded
    /\ \E r \in RowsOf(tickers_df) : r.chg < ChangeMin /\ PassesOtherThanChange(r)
    /\ \E r \in RowsOf(tickers_df) : r.chg > 10 /\ r.ticker \in TickersOf(result_rows)

(* C3: the price filter is inclusive at both ends: a ticker priced exactly 45   *)
(* or exactly 70 that passes the other filters is kept by the pre-filter, and a *)
(* ticker priced 44 or 71 is rejected whatever its other attributes.            *)
C3_PriceBoundsInclusive ==
    \A r \in RowsOf(tickers_df) :
        /\ ((r.p = 45 \/ r.p = 70) /\ PassesOtherThanPrice(r) /\ Len(tickers_df) <= HeadLimit)
              => r.ticker \in TickersOf(pre_filtered)
        /\ (r.p = 45 - 1 \/ r.p = 70 + 1) => ~Reaches(r.ticker)

C3_Witness ==
    /\ pc = "loop"
    /\ \E r \in RowsOf(tickers_df) : r.p = 45 /\ r.ticker \in TickersOf(pre_filtered)
    /\ \E r \in RowsOf(tickers_df) : r.p = 70 /\ r.ticker \in TickersOf(pre_filtered)

(* C4, as claimed: in every result row stop_loss and target lie at the same     *)
(* distance m * atr from the entry price, below and above it.                   *)
C4_SymmetricStopTarget ==
    \A row \in RowsOf(result_rows) :
        row.target_price - row.entry_price = row.entry_price - row.stop_loss

(* C4, amended: in every result row stop_loss = entry_price - 1.0 * atr and     *)
(* target_price = entry_price + 1.5 * atr (entry 60, atr 2: stop 58, target 63).*)
C4_StopOneTargetOneAndHalf ==
    \A row \in RowsOf(result_rows) :
        /\ row.stop_loss = row.entry_price - row.atr
        /\ 2 * (row.target_price - row.entry_price) = 3 * row.atr

C4_Witness ==
    \E row \in RowsOf(result_rows) :
        row.entry_price = 60 /\ row.atr = 2 /\ row.stop_loss = 58 /\ row.target_price = 63

(* C5, as claimed: every result row has a positive per-share risk,              *)
(* entry_price - stop_loss > 0; a ticker whose ATR is zero has no row.          *)
C5_PositiveRiskRows ==
    \A row \in RowsOf(result_rows) : row.entry_price - row.stop_loss > 0

\* the columns the loop body reads: lines 83, 93-99, 106-112
RequiredFields == {"c", "v", "h", "l", "t"}

\* a response with no candles, without a required field, or with too few candles
LacksData(resp) ==
    resp.n = 0 \/ ~(RequiredFields \subseteq resp.cols) \/ resp.n < MinCandles

(* C6, as claimed: a ticker whose response has no candles, lacks a required     *)
(* candle field or has fewer candles than required is skipped without aborting  *)
(* the run: it adds no result row, the run does not end in the loop, and once   *)
(* the loop is over every pre-filtered ticker has been evaluated.               *)
C6_SkippedWithoutAbort ==
    \A symbol \in DOMAIN fetched :
        LacksData(fetched[symbol]) =>
            /\ symbol \notin TickersOf(result_rows)
            /\ pc # "KeyError_timestamp"
            /\ (pc \in {"stopped_no_data", "NameError_df_final_display"}
                  => TickersOf(pre_filtered) \subseteq DOMAIN fetched)

\* every ticker of the snapshot was rejected, by the pre-filter or in the loop
AllRejected ==
    \A r \in RowsOf(tickers_df) :
        \/ r.ticker \notin TickersOf(pre_filtered)
        \/ (r.ticker \in DOMAIN fetched /\ BodyOutcome(fetched[r.ticker]) = "skip")

(* C7, as claimed: a run on an empty ticker universe, or one in which every     *)
(* ticker is rejected, ends in the 'no qualifying candidates' state (warning    *)
(* and stop, lines 171-173) and not in an error.                                *)
C7_NoCandidatesIsNotAnError ==
    (RunEnded /\ AllRejected) => pc = "stopped_no_data"

(* C9, as claimed: when the loop has yielded at least one result row, the run   *)
(* reaches the ranked-list display and the displayed list holds every ticker    *)
(* of the result rows exactly once.                                             *)
C9_RowsAreDisplayed ==
    (RunEnded /\ Len(df) > 0) =>
        /\ pc = "displayed"
        /\ Len(top_display) = Len(result_rows)
        /\ TickersOf(top_display) = TickersOf(result_rows)

(* C1: in the displayed ranked list the score column is non-increasing from    *)
(* the first row to the last.                                                   *)
C1_ScoresNonIncreasing ==
    pc = "displayed" =>
        \A k \in 1..(Len(top_display) - 1) : top_display[k].score >= top_display[k + 1].score

\* a display whose scores strictly fall, from a frame whose scores rose
C1_Witness ==
    /\ pc = "displayed"
    /\ Len(top_display) >= 2
    /\ top_display[1].score > top_display[2].score
    /\ df[1].score < df[2].score

\* the score a row of the result rows receives in a run that holds it alone
ScoreAlone(row) == ScoreAll(FormatPrices(<<row>>))[1].score

Metrics(r) == <<r.macd_hist, r.rsi_2, r.ema_9, r.ema_21, r.atr, r.bb_width, r.vwap,
                r.percent_change, r.volume>>

Scored == pc \in {"sort", "displayed"}

PasswordCorrect ==
    "password_correct" \in DOMAIN session_state /\ session_state["password_correct"]

(* C10: the screening pipeline runs only while session_state['password_correct']*)
(* is true; the flag is true only after an entry equal to APP_PASSWORD, and the *)
(* typed password is then no longer in the session state; while the flag is     *)
(* false the last entry differs from APP_PASSWORD; the flag is absent only      *)
(* before any entry.                                                            *)
C10_GateSafety ==
    /\ pc \in PipelineStates => PasswordCorrect
    /\ PasswordCorrect => (typed = APP_PASSWORD /\ "password" \notin DOMAIN session_state)
    /\ ("password_correct" \in DOMAIN session_state /\ ~session_state["password_correct"])
          => (typed # APP_PASSWORD /\ session_state["password"] = typed)
    /\ "password_correct" \notin DOMAIN session_state => typed = ""

C10_Witness ==
    /\ pc = "loop"
    /\ PasswordCorrect
    /\ "password" \notin DOMAIN session_state

====
